---- MODULE Spec2Model ----
(***************************************************************************)
(* konachan-popular: model of src/src/lib.rs.                              *)
(*                                                                         *)
(*   run          fetch -> spawn one download task per post -> join ->     *)
(*                send the date header -> send the posts in chunks of 10   *)
(*   send_posts   the retry loop around one grouped send                   *)
(*   resize_image the shrink loop that fits an image under the ceiling     *)
(*                                                                         *)
(* Spec        is the orchestrator (run and send_posts).                   *)
(* SpecResize  is resize_image on its own, over a bounded set of inputs.   *)
(***************************************************************************)
EXTENDS Integers, Sequences, FiniteSets, TLC

(***************************************************************************)
(* Bounds of the model (not program constants).                            *)
(***************************************************************************)
\* largest number of posts one fetch returns
MaxPosts == 11
\* largest number of download tasks that do not return Ok in one run
MaxFailures == 1

(***************************************************************************)
(* Program constants.                                                      *)
(***************************************************************************)
\* lib.rs:39   const MAX_IMAGE_SIZE: usize = 10 * 1024_usize.pow(2)
MAX_IMAGE_SIZE == 10 * 1024 * 1024
\* lib.rs:313  posts.chunks(10)
ChunkSize == 10
\* lib.rs:231  for attempt in 0..10
\* a mutation of the retry budget: half the attempts
SendAttemptsMut == 10 \div 2
SendAttempts == 10
\* lib.rs:152  target_width + target_height > 10000
MaxDimSum == 10000

VARIABLES
    \* ---- run ----
    pc,             \* position of run: "init","fetch","join","header","dispatch","send","done"
    runResult,      \* what run returned: "none","ok","client_error","fetch_error","join_error","header_error"
    fetchAttempts,  \* number of calls of get_konachan_popular
    task,           \* task[i]: state of the download task of the i-th fetched post
    posts,          \* the Vec `posts` of run: the surviving posts (by rank), in push order
    headerCalls,    \* number of calls of bot.send_message
    group,          \* 1-based index of the chunk the `for group in posts.chunks(10)` loop is at
    batchLog,       \* one record per concluded call of send_posts
    outOfOrder,     \* some task completed after a task of a later post had completed
    headerResult,   \* what bot.send_message returned: "none","ok","err"
    \* ---- send_posts ----
    images,         \* the Vec `images` built from the chunk
    attempt,        \* the loop variable `attempt` (number of sends made so far)
    result,         \* the Option `result`
    backoffs,       \* number of backoff waits made between attempts
    hist,           \* summary of the failures of the current dispatch
    \* ---- resize_image ----
    rpc,            \* position of resize_image: "idle","enter","loop","done"
    image_bytes,    \* the argument image_bytes
    dim_unit,       \* pixels per unit of original_width and original_height: 1, or
                    \* WideUnit for declared sizes beyond the integers of the checker
    original_width,
    original_height,
    target_width,
    target_height,
    rresult,        \* what resize_image returned
    round,          \* 1: first application, 2: applied again to its own output
    firstOut,       \* the bytes returned by the first application
    \* ---- download_post ----
    dpc,            \* position of download_post: "idle","request","resize","done"
    post,           \* the post: the byte sizes its JSON object declares for the full and
                    \* the sample rendition (not read into Post), jpeg_width, jpeg_height
    requested,      \* the URL download_post requested: "none","jpeg_url","file_url","sample_url"
    dresult         \* what download_post returned

runVars == <<pc, runResult, fetchAttempts, task, posts, headerCalls, group, batchLog,
            outOfOrder, headerResult>>
sendVars == <<images, attempt, result, backoffs, hist>>
resizeVars == <<rpc, image_bytes, dim_unit, original_width, original_height,
                target_width, target_height, rresult, round, firstOut>>
downloadVars == <<dpc, post, requested, dresult>>
vars == <<runVars, sendVars, resizeVars, downloadVars>>

(***************************************************************************)
(* Helpers                                                                 *)
(***************************************************************************)
Min(a, b) == IF a < b THEN a ELSE b

RECURSIVE SelectOkMut(_, _)
\* a mutation of the collection: every Ok is inserted at the front of `posts`
SelectOkMut(t, i) ==
    IF i > Len(t) THEN << >>
    ELSE IF t[i] = "ok" THEN SelectOkMut(t, i + 1) \o <<i>>
    ELSE SelectOkMut(t, i + 1)

RECURSIVE SelectOk(_, _)
\* lib.rs:301-307  walk the join results in handle order, push every Ok
SelectOk(t, i) ==
    IF i > Len(t) THEN << >>
    ELSE IF t[i] = "ok" THEN <<i>> \o SelectOk(t, i + 1)
    ELSE SelectOk(t, i + 1)

NumFailed(t) == Cardinality({i \in 1..Len(t) : t[i] \in {"err", "panic"}})

\* number of chunks slice::chunks(k) yields for a slice of length n
NumChunks(n, k) == (n + k - 1) \div k

\* a mutation of chunks: the remainder chunk is lost (chunks_exact)
chunksMut(s, k) ==
    [j \in 1..(Len(s) \div k) |-> SubSeq(s, (j - 1) * k + 1, j * k)]

\* lib.rs:313  posts.chunks(10): consecutive slices of k items, the last one shorter
chunks(s, k) ==
    [j \in 1..NumChunks(Len(s), k) |->
        SubSeq(s, (j - 1) * k + 1, Min(j * k, Len(s)))]

\* a mutation of the retry: `images` is moved into the request instead of cloned
NextImagesTakenMut(imgs, idx) == << >>

\* a mutation of the retry: the item an error cites is removed before the next attempt
NextImagesMut(imgs, idx) ==
    IF idx \in 1..Len(imgs)
    THEN SubSeq(imgs, 1, idx - 1) \o SubSeq(imgs, idx + 1, Len(imgs))
    ELSE imgs

\* lib.rs:231-246  a failed attempt only logs the error; `images` is sent again as it is
NextImages(imgs, idx) == imgs

\* a mutation of the loop control: the `break` after a successful send is missing
LoopEndsMut(kind, att) == att + 1 = SendAttempts

\* lib.rs:231 and 247-254  the loop ends on the first success (`break`) or when
\* the range 0..10 is exhausted; att is the 0-based attempt just made
LoopEnds(kind, att) == kind = "ok" \/ att + 1 = SendAttempts

\* a mutation of the join: run goes on as soon as one task has completed
AllJoinedMut(t) == Len(t) = 0 \/ \E i \in 1..Len(t) : t[i] # "running"

\* lib.rs:302  future::join_all(download_image_tasks).await completes when every
\* task has completed
AllJoined(t) == \A i \in 1..Len(t) : t[i] # "running"

\* a mutation of the header send: its error is ignored
HeaderErrorReturnsMut == FALSE

\* lib.rs:310  bot.send_message(..).await? : the error of the header send is
\* returned from run
HeaderErrorReturns == TRUE

\* a mutation of the error handling of the fetch: retry up to 5 attempts
FetchRetriesMut(n) == n < 5

\* lib.rs:296  get_konachan_popular().await? : the error leaves run at once,
\* whatever the number n of attempts made
FetchRetries(n) == FALSE

\* a mutation of the group loop: the error of send_posts leaves the loop
AfterSendPostsMut(kind) == IF kind = "err" THEN "done" ELSE "dispatch"

\* lib.rs:313-317  the error of send_posts is logged and the loop goes on
AfterSendPosts(kind) == "dispatch"

RECURSIVE GCD(_, _)
GCD(a, b) == IF b = 0 THEN a ELSE GCD(b, a % b)

\* the download ceiling of the variant selection (5 MiB)
DownloadCeiling == 5 * 1024 * 1024

\* a mutation of the request: the rendition is selected by the declared sizes
SelectRenditionMut(full_size, sample_size) ==
    IF full_size < DownloadCeiling THEN "file_url"
    ELSE IF sample_size < DownloadCeiling THEN "sample_url"
    ELSE "none"

\* lib.rs:96-97  reqwest::Client::new().get(&post.jpeg_url): the jpeg rendition,
\* whatever sizes the post declares (lib.rs:41-47: Post does not hold them)
SelectRendition(full_size, sample_size) == "jpeg_url"

\* a mutation of the early return: the ceiling is compared as 1 MiB
SmallEnoughMut(len) == len <= 1024 * 1024

\* lib.rs:136  image_bytes.len() <= MAX_IMAGE_SIZE
SmallEnough(len) == len <= MAX_IMAGE_SIZE

\* lib.rs:181  png_bytes.len() < MAX_IMAGE_SIZE
FitsLimit(len) == len < MAX_IMAGE_SIZE

\* lib.rs:143-145  (dim as f32 * (MAX_IMAGE_SIZE as f32 / len as f32).sqrt()) as u32:
\* the largest t with t^2 * len <= dim^2 * MAX_IMAGE_SIZE (the fraction is reduced
\* first, to stay inside the integers of the checker)
GuessDim(dim, len) ==
    LET g == GCD(MAX_IMAGE_SIZE, len)
        num == MAX_IMAGE_SIZE \div g
        den == len \div g
    IN  CHOOSE t \in 0..(2 * dim) :
            /\ t * t * den <= dim * dim * num
            /\ (t + 1) * (t + 1) * den > dim * dim * num

\* declared sizes of 2^31 pixels and more are counted in units of 2^24 pixels
WideUnit == 2^24
\* 2^32 pixels, the range of u32, in units of 2^24 pixels
WordUnits == 2^8

\* lib.rs:152  target_width + target_height leaves the range of u32; a and b are
\* counted in units of `unit` pixels (in pixels every sum the checker can hold is
\* inside the range)
Overflows(a, b, unit) == unit = WideUnit /\ a + b >= WordUnits

\* lib.rs:152-153  the u32 sum as a build without overflow checks computes it
\* (modulo 2^32), in units of `unit` pixels
WrappedSum(a, b, unit) == IF Overflows(a, b, unit) THEN (a + b) % WordUnits ELSE a + b

\* lib.rs:152  sum > 10000, for a sum counted in units of `unit` pixels
SumExceeds(sum, unit) == sum > MaxDimSum \div unit

\* lib.rs:153-155  (dim as f32 * (10000.0 / sum as f32)).floor() as u32
FitDimSum(dim, sum) == (dim * MaxDimSum) \div sum

\* lib.rs:196-197  (dim as f32 * 0.8) as u32; the cast truncates, and below 2^24 the
\* f32 product truncates to the same integer as dim * 4 / 5
Shrink(dim) == (dim * 4) \div 5

None == [kind |-> "none", attempt |-> -1, idx |-> -1]
NoHist == [lastIdx |-> -1, idxBefore |-> FALSE, oks |-> 0]

(***************************************************************************)
(* Init                                                                    *)
(***************************************************************************)
RunIdle ==
    /\ runResult = "none"
    /\ fetchAttempts = 0
    /\ task = << >>
    /\ posts = << >>
    /\ headerCalls = 0
    /\ group = 0
    /\ batchLog = << >>
    /\ outOfOrder = FALSE
    /\ headerResult = "none"
    /\ images = << >>
    /\ attempt = 0
    /\ result = None
    /\ backoffs = 0
    /\ hist = NoHist

ResizeIdle ==
    /\ rpc = "idle"
    /\ image_bytes = [len |-> 0, data |-> "orig"]
    /\ dim_unit = 1
    /\ original_width = 0
    /\ original_height = 0
    /\ target_width = 0
    /\ target_height = 0
    /\ rresult = [status |-> "none", bytes |-> [len |-> 0, data |-> "orig"]]
    /\ round = 1
    /\ firstOut = [len |-> 0, data |-> "orig"]

DownloadIdle ==
    /\ dpc = "idle"
    /\ post = [file_size |-> 0, sample_file_size |-> 0, jpeg_width |-> 0, jpeg_height |-> 0]
    /\ requested = "none"
    /\ dresult = [status |-> "none", bytes |-> [len |-> 0, data |-> "orig"]]

Init ==
    /\ pc = "init"
    /\ RunIdle
    /\ ResizeIdle
    /\ DownloadIdle

(***************************************************************************)
(* run                                                                     *)
(***************************************************************************)
\* lib.rs:285-288  Client::builder()...build()?
BuildClient ==
    /\ pc = "init"
    /\ \E ok \in BOOLEAN :
        IF ok
        THEN /\ pc' = "fetch"
             /\ runResult' = runResult
        ELSE /\ pc' = "done"
             /\ runResult' = "client_error"
    /\ UNCHANGED <<fetchAttempts, task, posts, headerCalls, group, batchLog, outOfOrder, headerResult>>
    /\ UNCHANGED <<sendVars, resizeVars, downloadVars>>

\* lib.rs:294-298 with lib.rs:67-76  one fetch; on success one task is spawned per post
Fetch ==
    /\ pc = "fetch"
    /\ fetchAttempts' = fetchAttempts + 1
    /\ \/ \E n \in 0..MaxPosts :
            /\ task' = [i \in 1..n |-> "running"]
            /\ pc' = "join"
            /\ runResult' = runResult
       \/ /\ task' = task
          /\ IF FetchRetries(fetchAttempts + 1)
             THEN /\ pc' = "fetch"
                  /\ runResult' = runResult
             ELSE /\ pc' = "done"
                  /\ runResult' = "fetch_error"
    /\ UNCHANGED <<posts, headerCalls, group, batchLog, outOfOrder, headerResult>>
    /\ UNCHANGED <<sendVars, resizeVars, downloadVars>>

\* lib.rs:95-112  the download task of post i ends: Ok(bytes), Err (request or
\* ImageError), or it ends abnormally (the JoinHandle yields a JoinError)
TaskFinish(i) ==
    /\ pc = "join"
    /\ i \in 1..Len(task)
    /\ task[i] = "running"
    /\ \E r \in {"ok", "err", "panic"} :
        /\ r # "ok" => NumFailed(task) < MaxFailures
        /\ task' = [task EXCEPT ![i] = r]
    /\ outOfOrder' = (outOfOrder \/ \E j \in (i + 1)..Len(task) : task[j] # "running")
    /\ UNCHANGED <<pc, runResult, fetchAttempts, posts, headerCalls, group, batchLog, headerResult>>
    /\ UNCHANGED <<sendVars, resizeVars, downloadVars>>

\* lib.rs:301-307  join_all, then `result?` on every join result in handle order
JoinAll ==
    /\ pc = "join"
    /\ AllJoined(task)
    /\ IF \E i \in 1..Len(task) : task[i] = "panic"
       THEN /\ pc' = "done"
            /\ runResult' = "join_error"
            /\ posts' = posts
       ELSE /\ pc' = "header"
            /\ runResult' = runResult
            /\ posts' = SelectOk(task, 1)
    /\ UNCHANGED <<fetchAttempts, task, headerCalls, group, batchLog, outOfOrder, headerResult>>
    /\ UNCHANGED <<sendVars, resizeVars, downloadVars>>

\* lib.rs:309-310  bot.send_message(config.chat_id, today).await?
SendHeader ==
    /\ pc = "header"
    /\ headerCalls' = headerCalls + 1
    /\ \E ok \in BOOLEAN :
        IF ok
        THEN /\ pc' = "dispatch"
             /\ group' = 1
             /\ runResult' = runResult
             /\ headerResult' = "ok"
        ELSE /\ headerResult' = "err"
             /\ IF HeaderErrorReturns
                THEN /\ pc' = "done"
                     /\ group' = group
                     /\ runResult' = "header_error"
                ELSE /\ pc' = "dispatch"
                     /\ group' = 1
                     /\ runResult' = runResult
    /\ UNCHANGED <<fetchAttempts, task, posts, batchLog, outOfOrder>>
    /\ UNCHANGED <<sendVars, resizeVars, downloadVars>>

\* lib.rs:313-314 with lib.rs:213-227  the loop takes the next chunk and send_posts
\* builds `images` from it
BeginGroup ==
    /\ pc = "dispatch"
    /\ group <= Len(chunks(posts, ChunkSize))
    /\ images' = chunks(posts, ChunkSize)[group]
    /\ attempt' = 0
    /\ result' = None
    /\ hist' = NoHist
    /\ pc' = "send"
    /\ UNCHANGED <<runResult, fetchAttempts, task, posts, headerCalls, group, batchLog, backoffs,
                   outOfOrder, headerResult>>
    /\ UNCHANGED <<resizeVars, downloadVars>>

\* the answers of the messaging platform to one grouped send: success, or an error
\* whose text carries no item index (0) or the index idx: the first item, the last
\* item, or one past the last (out of range)
SendOutcomes(imgs) ==
    {[kind |-> "ok", idx |-> -1]} \cup
    {[kind |-> "err", idx |-> x] : x \in {0, 1, Len(imgs), Len(imgs) + 1}}

\* lib.rs:231-263 and 314-316  one send_media_group, the loop control after it, and,
\* when the loop ends, the return of send_posts and the logging of run
SendAttempt ==
    /\ pc = "send"
    /\ attempt < SendAttempts
    /\ \E out \in SendOutcomes(images) :
        LET res == [kind |-> out.kind, attempt |-> attempt, idx |-> out.idx]
            ends == LoopEnds(out.kind, attempt)
            oks == hist.oks + (IF out.kind = "ok" THEN 1 ELSE 0)
        IN  /\ result' = res
            /\ attempt' = attempt + 1
            /\ IF ends
               THEN /\ batchLog' = Append(batchLog,
                                      [group |-> group,
                                       chunk |-> chunks(posts, ChunkSize)[group],
                                       sent |-> images,
                                       attempts |-> attempt + 1,
                                       backoffs |-> backoffs,
                                       result |-> res,
                                       oks |-> oks,
                                       hist |-> hist])
                    /\ group' = group + 1
                    /\ pc' = AfterSendPosts(out.kind)
                    /\ UNCHANGED <<images, hist>>
               ELSE /\ images' = NextImages(images, out.idx)
                    /\ hist' = [lastIdx |-> out.idx,
                                idxBefore |-> hist.idxBefore \/ hist.lastIdx > 0,
                                oks |-> oks]
                    /\ UNCHANGED <<batchLog, group, pc>>
    /\ UNCHANGED <<runResult, fetchAttempts, task, posts, headerCalls, backoffs,
                   outOfOrder, headerResult>>
    /\ UNCHANGED <<resizeVars, downloadVars>>

\* lib.rs:317-319  the chunks are exhausted: Ok(())
Finish ==
    /\ pc = "dispatch"
    /\ group > Len(chunks(posts, ChunkSize))
    /\ pc' = "done"
    /\ runResult' = "ok"
    /\ UNCHANGED <<fetchAttempts, task, posts, headerCalls, group, batchLog, outOfOrder, headerResult>>
    /\ UNCHANGED <<sendVars, resizeVars, downloadVars>>

Next ==
    \/ BuildClient
    \/ Fetch
    \/ \E i \in 1..MaxPosts : TaskFinish(i)
    \/ JoinAll
    \/ SendHeader
    \/ BeginGroup
    \/ SendAttempt
    \/ Finish

Spec == Init /\ [][Next]_vars

(***************************************************************************)
(* resize_image                                                            *)
(***************************************************************************)
\* the inputs of resize_image: <<byte length, declared width, declared height>>;
\* lengths next to the ceiling come with small dimensions, lengths that are a
\* multiple of a large divisor of the ceiling with the larger ones
SmallDims == {0, 1, 2, 13}
LargeDims == {1, 3, 100, 4000}
ResizeInputs ==
    ({1000, MAX_IMAGE_SIZE - 1, MAX_IMAGE_SIZE, MAX_IMAGE_SIZE + 1} \X SmallDims \X SmallDims)
    \cup ({2 * MAX_IMAGE_SIZE, 4 * MAX_IMAGE_SIZE} \X LargeDims \X LargeDims)
    \cup {<<(MAX_IMAGE_SIZE \div 4) * 5, 12000, 9000>>}

\* inputs with declared sizes in units of WideUnit pixels: 240 units are
\* 4026531840 pixels, 160 units 2684354560 pixels; the length is 25/16 of the
\* ceiling, so the guessed ratio is 4/5 and the guesses are whole units
WideInputs ==
    {<<(MAX_IMAGE_SIZE \div 16) * 25, 240, 240>>,
     <<(MAX_IMAGE_SIZE \div 16) * 25, 240, 160>>,
     <<(MAX_IMAGE_SIZE \div 16) * 25, 160, 5>>}

InputsIn(unit) == IF unit = 1 THEN ResizeInputs ELSE WideInputs

\* the byte lengths the PNG encoder may produce
PngSizes == {MAX_IMAGE_SIZE - 1, MAX_IMAGE_SIZE, MAX_IMAGE_SIZE + 1}

InitResize ==
    /\ pc = "init"
    /\ RunIdle
    /\ rpc = "enter"
    /\ \E u \in {1, WideUnit} : \E in \in InputsIn(u) :
        /\ dim_unit = u
        /\ image_bytes = [len |-> in[1], data |-> "orig"]
        /\ original_width = in[2]
        /\ original_height = in[3]
    /\ target_width = 0
    /\ target_height = 0
    /\ rresult = [status |-> "none", bytes |-> [len |-> 0, data |-> "orig"]]
    /\ round = 1
    /\ firstOut = [len |-> 0, data |-> "orig"]
    /\ DownloadIdle

\* lib.rs:135-166  the early return, the guessed target, the width + height rule,
\* and the decoding of the input
ResizeEnter ==
    /\ rpc = "enter"
    /\ IF SmallEnough(image_bytes.len)
       THEN /\ rresult' = [status |-> "ok", bytes |-> image_bytes]
            /\ rpc' = "done"
            /\ UNCHANGED <<target_width, target_height>>
       ELSE LET gw == GuessDim(original_width, image_bytes.len)
                gh == GuessDim(original_height, image_bytes.len)
                sum == WrappedSum(gw, gh, dim_unit)
                tw == IF SumExceeds(sum, dim_unit) THEN FitDimSum(gw, sum) ELSE gw * dim_unit
                th == IF SumExceeds(sum, dim_unit) THEN FitDimSum(gh, sum) ELSE gh * dim_unit
            IN  \/ \* a build with overflow checks panics on the overflowing sum
                   /\ Overflows(gw, gh, dim_unit)
                   /\ rpc' = "done"
                   /\ rresult' = [status |-> "panic", bytes |-> image_bytes]
                   /\ UNCHANGED <<target_width, target_height>>
                \/ /\ target_width' = tw
                   /\ target_height' = th
                   /\ \E decoded \in BOOLEAN :
                       IF decoded
                       THEN /\ rpc' = "loop"
                            /\ rresult' = rresult
                       ELSE /\ rpc' = "done"
                            /\ rresult' = [status |-> "err", bytes |-> image_bytes]
    /\ UNCHANGED <<image_bytes, dim_unit, original_width, original_height, round, firstOut>>
    /\ UNCHANGED <<runVars, sendVars, downloadVars>>

\* lib.rs:168-198  one iteration: resize, encode as PNG, return if it fits,
\* else shrink both targets by 20%
ResizeIter ==
    /\ rpc = "loop"
    /\ \/ /\ rpc' = "done"
          /\ rresult' = [status |-> "err", bytes |-> image_bytes]
          /\ UNCHANGED <<target_width, target_height>>
       \/ \E size \in PngSizes :
            IF FitsLimit(size)
            THEN /\ rpc' = "done"
                 /\ rresult' = [status |-> "ok", bytes |-> [len |-> size, data |-> "png"]]
                 /\ UNCHANGED <<target_width, target_height>>
            ELSE /\ target_width' = Shrink(target_width)
                 /\ target_height' = Shrink(target_height)
                 /\ UNCHANGED <<rpc, rresult>>
    /\ UNCHANGED <<image_bytes, dim_unit, original_width, original_height, round, firstOut>>
    /\ UNCHANGED <<runVars, sendVars, downloadVars>>

\* resize_image is applied once more, to the bytes it returned
ResizeAgain ==
    /\ rpc = "done"
    /\ rresult.status = "ok"
    /\ round = 1
    /\ round' = 2
    /\ firstOut' = rresult.bytes
    /\ image_bytes' = rresult.bytes
    /\ rpc' = "enter"
    /\ rresult' = [status |-> "none", bytes |-> [len |-> 0, data |-> "orig"]]
    /\ UNCHANGED <<dim_unit, original_width, original_height, target_width, target_height>>
    /\ UNCHANGED <<runVars, sendVars, downloadVars>>

NextResize ==
    \/ ResizeEnter
    \/ ResizeIter
    \/ ResizeAgain

SpecResize == InitResize /\ [][NextResize]_vars

(***************************************************************************)
(* download_post                                                           *)
(***************************************************************************)
\* the byte sizes a post declares for a rendition
DeclaredSizes == {DownloadCeiling - 1, DownloadCeiling, DownloadCeiling + 1}

\* the byte lengths the download of a post of w x h may have (see ResizeInputs)
DownloadLens(w, h, unit) == {in[1] : in \in {x \in InputsIn(unit) : x[2] = w /\ x[3] = h}}

InitDownload ==
    /\ pc = "init"
    /\ RunIdle
    /\ rpc = "idle"
    /\ image_bytes = [len |-> 0, data |-> "orig"]
    /\ original_width = 0
    /\ original_height = 0
    /\ target_width = 0
    /\ target_height = 0
    /\ rresult = [status |-> "none", bytes |-> [len |-> 0, data |-> "orig"]]
    /\ round = 1
    /\ firstOut = [len |-> 0, data |-> "orig"]
    /\ dpc = "request"
    /\ \E u \in {1, WideUnit} : \E in \in InputsIn(u) :
        \E fs \in DeclaredSizes, ss \in DeclaredSizes :
            /\ dim_unit = u
            /\ post = [file_size |-> fs, sample_file_size |-> ss,
                       jpeg_width |-> in[2], jpeg_height |-> in[3]]
    /\ requested = "none"
    /\ dresult = [status |-> "none", bytes |-> [len |-> 0, data |-> "orig"]]

\* lib.rs:96-102  the request of the image and the reading of its bytes; then
\* lib.rs:104-110 resize_image is entered with the bytes and the declared size
DownloadRequest ==
    /\ dpc = "request"
    /\ LET url == SelectRendition(post.file_size, post.sample_file_size)
       IN  /\ requested' = url
           /\ IF url = "none"
              THEN /\ dpc' = "done"
                   /\ UNCHANGED <<dresult, rpc, image_bytes, original_width, original_height>>
              ELSE \/ /\ dpc' = "done"
                      /\ dresult' = [status |-> "err", bytes |-> [len |-> 0, data |-> "orig"]]
                      /\ UNCHANGED <<rpc, image_bytes, original_width, original_height>>
                   \/ \E len \in DownloadLens(post.jpeg_width, post.jpeg_height, dim_unit) :
                        /\ dpc' = "resize"
                        /\ rpc' = "enter"
                        /\ image_bytes' = [len |-> len, data |-> "orig"]
                        /\ original_width' = post.jpeg_width
                        /\ original_height' = post.jpeg_height
                        /\ dresult' = dresult
    /\ UNCHANGED <<post, dim_unit, target_width, target_height, rresult, round, firstOut>>
    /\ UNCHANGED <<runVars, sendVars>>

\* lib.rs:104-111  Ok(resize_image(..).await?): the bytes, or the ImageError
DownloadReturn ==
    /\ dpc = "resize"
    /\ rpc = "done"
    /\ dpc' = "done"
    /\ dresult' = IF rresult.status = "ok"
                  THEN [status |-> "ok", bytes |-> rresult.bytes]
                  ELSE [status |-> rresult.status, bytes |-> [len |-> 0, data |-> "orig"]]
    /\ UNCHANGED <<post, requested>>
    /\ UNCHANGED <<runVars, sendVars, resizeVars>>

NextDownload ==
    \/ DownloadRequest
    \/ ResizeEnter
    \/ ResizeIter
    \/ DownloadReturn

SpecDownload == InitDownload /\ [][NextDownload]_vars

(***************************************************************************)
(* Properties                                                              *)
(***************************************************************************)
RECURSIVE ConcatChunks(_, _)
\* the chunks of the first j concluded dispatches, one after the other
ConcatChunks(log, j) ==
    IF j = 0 THEN << >> ELSE ConcatChunks(log, j - 1) \o log[j].chunk

CeilDiv(n, k) == IF n % k = 0 THEN n \div k ELSE (n \div k) + 1

RemoveAt(s, i) == [j \in 1..(Len(s) - 1) |-> IF j < i THEN s[j] ELSE s[j + 1]]

\* the fetch returned a list of posts
FetchSucceeded == fetchAttempts >= 1 /\ runResult # "fetch_error"

\* dispatch r ended with every attempt failing on an error without an item index
AllFailedWithoutIndex(r) ==
    /\ r.result.kind = "err"
    /\ r.result.idx = 0
    /\ r.hist.lastIdx <= 0
    /\ ~r.hist.idxBefore

\* dispatch r: the attempt before the last failed citing a valid item index, no
\* earlier failure carried an index, and the last attempt succeeded
FailedOnceCitingItem(r) ==
    /\ r.result.kind = "ok"
    /\ r.attempts >= 2
    /\ r.hist.lastIdx \in 1..Len(r.chunk)
    /\ ~r.hist.idxBefore

\* C1 as stated: a dispatch whose sends all fail without a parseable index makes
\* exactly 5 attempts, waits 4 backoff intervals and returns the last error.
C1_FiveAttemptsFourBackoffs ==
    \A j \in 1..Len(batchLog) :
        AllFailedWithoutIndex(batchLog[j]) =>
            /\ batchLog[j].attempts = 5
            /\ batchLog[j].backoffs = 4
            /\ batchLog[j].result.attempt = batchLog[j].attempts - 1

\* C1 amended: a dispatch whose sends all fail without a parseable index makes
\* exactly 10 attempts, waits no backoff interval of its own, and returns the
\* error of the tenth attempt.
C1_TenAttemptsNoBackoff ==
    \A j \in 1..Len(batchLog) :
        AllFailedWithoutIndex(batchLog[j]) =>
            /\ batchLog[j].attempts = 10
            /\ batchLog[j].backoffs = 0
            /\ batchLog[j].result.kind = "err"
            /\ batchLog[j].result.attempt = 9

C1_Witness ==
    \E j \in 1..Len(batchLog) :
        /\ AllFailedWithoutIndex(batchLog[j])
        /\ Len(batchLog[j].chunk) >= 1

\* C2 as stated: after a failure citing the valid item index i followed by a
\* success, the batch sent successfully is the original one without item i.
C2_CitedItemEvicted ==
    \A j \in 1..Len(batchLog) :
        FailedOnceCitingItem(batchLog[j]) =>
            batchLog[j].sent = RemoveAt(batchLog[j].chunk, batchLog[j].hist.lastIdx)

\* C2 amended: nothing is evicted: every attempt sends the original batch, so
\* after a failure citing item i followed by a success the batch sent
\* successfully is the original batch, item i included, in the original order.
C2_BatchSentUnchanged ==
    /\ pc = "send" => images = chunks(posts, ChunkSize)[group]
    /\ \A j \in 1..Len(batchLog) :
        FailedOnceCitingItem(batchLog[j]) =>
            /\ batchLog[j].sent = batchLog[j].chunk
            /\ batchLog[j].sent[batchLog[j].hist.lastIdx]
                 = batchLog[j].chunk[batchLog[j].hist.lastIdx]

C2_Witness ==
    \E j \in 1..Len(batchLog) :
        /\ FailedOnceCitingItem(batchLog[j])
        /\ Len(batchLog[j].chunk) >= 2

\* C3: run dispatches ceil(N / 10) batches of at most 10 items each, and the
\* batches, one after the other in dispatch order, are the surviving posts.
C3_BatchPartition ==
    /\ Len(images) <= 10
    /\ \A j \in 1..Len(batchLog) :
        /\ Len(batchLog[j].chunk) \in 1..10
        /\ Len(batchLog[j].sent) <= 10
    /\ ConcatChunks(batchLog, Len(batchLog))
         = SubSeq(posts, 1, Min(10 * Len(batchLog), Len(posts)))
    /\ runResult = "ok" =>
        /\ Len(batchLog) = CeilDiv(Len(posts), 10)
        /\ ConcatChunks(batchLog, Len(batchLog)) = posts

C3_Witness ==
    /\ runResult = "ok"
    /\ Len(posts) = 11
    /\ Len(batchLog) = 2

\* C4: the batches are dispatched one after the other, and a batch that fails for
\* good does not keep the later batches from being attempted.
C4_SequentialAndAllAttempted ==
    /\ pc = "send" => Len(batchLog) = group - 1
    /\ \A j \in 1..Len(batchLog) :
        /\ batchLog[j].group = j
        /\ batchLog[j].attempts >= 1
    /\ (pc = "done" /\ headerCalls = 1 /\ runResult # "header_error") =>
        Len(batchLog) = CeilDiv(Len(posts), 10)

C4_Witness ==
    /\ pc = "done"
    /\ Len(batchLog) = 2
    /\ batchLog[1].result.kind = "err"
    /\ batchLog[2].attempts >= 1

\* C5: once the fetch has succeeded, run returns success whatever happens later.
C5_SuccessOnceFetched ==
    (pc = "done" /\ FetchSucceeded) => runResult = "ok"

\* C6: the failure of one post's download task (an Err or an abnormal end) never
\* aborts the run: the header is sent and every downloaded post is in a batch.
C6_PostFailureNeverAborts ==
    (pc = "done" /\ FetchSucceeded) =>
        /\ headerCalls = 1
        /\ runResult # "header_error" =>
            \A i \in 1..Len(task) :
                task[i] = "ok" =>
                    \E j \in 1..Len(batchLog) :
                        \E k \in 1..Len(batchLog[j].chunk) : batchLog[j].chunk[k] = i

\* C7 as stated: the run fails with the fetch error only after 5 failed attempts.
C7_FailsAfterFiveFetches ==
    runResult = "fetch_error" => fetchAttempts = 5

\* C7 amended: the fetch is attempted exactly once, and the failure of that one
\* attempt fails the run at once.
C7_SingleFetchAttempt ==
    /\ fetchAttempts <= 1
    /\ runResult = "fetch_error" => (fetchAttempts = 1 /\ pc = "done")
    /\ ~(fetchAttempts = 1 /\ pc = "fetch")

C7_Witness ==
    /\ runResult = "fetch_error"
    /\ fetchAttempts = 1

\* C8: whenever resize_image returns Ok, the returned length is strictly below
\* MAX_IMAGE_SIZE.
C8_OutputBelowCeiling ==
    (rpc = "done" /\ rresult.status = "ok") => rresult.bytes.len < MAX_IMAGE_SIZE

\* C9: an input whose length is under the ceiling is returned as it is, without
\* entering the decode/encode loop, also when it is the output of resize_image.
C9_FixedPoint ==
    image_bytes.len < MAX_IMAGE_SIZE =>
        /\ rpc # "loop"
        /\ rpc = "done" =>
            /\ rresult.status = "ok"
            /\ rresult.bytes = image_bytes
            /\ round = 2 => rresult.bytes = firstOut

C9_Witness ==
    /\ rpc = "done"
    /\ round = 2
    /\ image_bytes.data = "orig"
    /\ image_bytes.len = MAX_IMAGE_SIZE - 1
    /\ rresult.bytes = firstOut

RECURSIVE ConcatSent(_, _)
\* the batches sent by the first j concluded dispatches, one after the other
ConcatSent(log, j) ==
    IF j = 0 THEN << >> ELSE ConcatSent(log, j - 1) \o log[j].sent

\* the posts of s are in the order of the fetched ranking
InRankOrder(s) == \A a, b \in 1..Len(s) : a < b => s[a] < s[b]

\* C11: whatever the order in which the download tasks complete, the surviving
\* posts are the Ok posts in the order of the fetched ranking, and so are the
\* batches, one after the other, and the items of the batch being sent.
C11_RankOrderKept ==
    /\ InRankOrder(posts)
    /\ pc \in {"header", "dispatch", "send"} =>
        {posts[k] : k \in 1..Len(posts)} = {i \in 1..Len(task) : task[i] = "ok"}
    /\ InRankOrder(images)
    /\ InRankOrder(ConcatSent(batchLog, Len(batchLog)))

C11_Witness ==
    /\ outOfOrder
    /\ runResult = "ok"
    /\ Len(batchLog) = 2
    /\ batchLog[1].result.kind = "ok"
    /\ batchLog[2].result.kind = "ok"

\* C13: no send is made after a successful one, a batch is delivered at most
\* once, and send_posts returns Ok exactly when an attempt succeeded, which is
\* then the last attempt made.
C13_SuccessStopsDispatch ==
    /\ pc = "send" => hist.oks = 0
    /\ \A j \in 1..Len(batchLog) :
        /\ batchLog[j].oks <= 1
        /\ batchLog[j].result.kind = "ok" <=> batchLog[j].oks >= 1
        /\ batchLog[j].result.attempt = batchLog[j].attempts - 1

C13_Witness ==
    \E j \in 1..Len(batchLog) :
        /\ batchLog[j].result.kind = "ok"
        /\ batchLog[j].attempts \in 2..9

\* C14: after a send that fails with an error without an item index, the next
\* attempt sends the same sequence of items.
C14_TransientRetryKeepsBatch ==
    [][(/\ pc = "send"
        /\ pc' = "send"
        /\ attempt' = attempt + 1
        /\ result'.kind = "err"
        /\ result'.idx = 0) => images' = images]_vars

C14_Witness ==
    /\ pc = "send"
    /\ attempt >= 1
    /\ result.kind = "err"
    /\ result.idx = 0
    /\ Len(images) >= 2
    /\ images = chunks(posts, ChunkSize)[group]

\* C15: the header is sent at most once and only when every download task has
\* completed; a grouped send is made only after the header send has returned,
\* with no task still running, and a run that succeeds has sent it once.
C15_StageOrder ==
    /\ headerCalls <= 1
    /\ headerCalls = 1 => \A i \in 1..Len(task) : task[i] # "running"
    /\ pc = "header" => (headerCalls = 0 /\ batchLog = << >> /\ attempt = 0)
    /\ (pc \in {"dispatch", "send"} \/ Len(batchLog) > 0 \/ attempt > 0) =>
        /\ headerCalls = 1
        /\ headerResult = "ok"
        /\ \A i \in 1..Len(task) : task[i] # "running"
    /\ runResult = "ok" => headerCalls = 1

C15_Witness ==
    /\ pc = "send"
    /\ group = 1
    /\ attempt = 1
    /\ outOfOrder
    /\ headerCalls = 1

\* C17: when the header send fails, run returns that error at once and makes no
\* grouped send.
C17_HeaderErrorEndsRun ==
    headerResult = "err" =>
        /\ pc = "done"
        /\ runResult = "header_error"
        /\ batchLog = << >>
        /\ attempt = 0
        /\ images = << >>

C17_Witness ==
    /\ headerResult = "err"
    /\ Len(posts) >= 1
    /\ \A i \in 1..Len(task) : task[i] = "ok"

\* no download task returned Ok
NoSurvivor == \A i \in 1..Len(task) : task[i] \in {"err", "panic"}

\* C18: send_posts never gets an empty batch, and when no item survives the
\* download stage the header is sent, no grouped send is made and run returns Ok.
C18_EmptyRunSucceeds ==
    /\ pc = "send" => Len(images) >= 1
    /\ \A j \in 1..Len(batchLog) : Len(batchLog[j].chunk) >= 1
    /\ (pc = "done" /\ FetchSucceeded /\ NoSurvivor) =>
        /\ headerCalls = 1
        /\ batchLog = << >>
        /\ attempt = 0
        /\ runResult = "ok"

\* C12 as stated: the full rendition is requested when its declared size is
\* below the ceiling, else the sample when its size is below the ceiling, else
\* nothing, and the post yields no item.
C12_VariantByDeclaredSize ==
    dpc \in {"resize", "done"} =>
        /\ post.file_size < DownloadCeiling => requested = "file_url"
        /\ (post.file_size >= DownloadCeiling /\ post.sample_file_size < DownloadCeiling) =>
            requested = "sample_url"
        /\ (post.file_size >= DownloadCeiling /\ post.sample_file_size >= DownloadCeiling) =>
            (requested = "none" /\ dresult.status # "ok")

\* C12 amended: there is no selection: download_post requests jpeg_url whatever
\* sizes the post declares, and every post yields an item or an error.
C12_AlwaysJpegUrl ==
    /\ dpc \in {"resize", "done"} => requested = "jpeg_url"
    /\ dpc = "done" => dresult.status \in {"ok", "err", "panic"}
    /\ (dpc = "done" /\ rresult.status = "ok") => dresult.status = "ok"

C12_Witness ==
    /\ dpc = "done"
    /\ post.file_size >= DownloadCeiling
    /\ post.sample_file_size >= DownloadCeiling
    /\ requested = "jpeg_url"
    /\ dresult.status = "ok"

\* C16: at every resize call of the loop, target_width + target_height is at
\* most 10000.
C16_DimSumWithinLimit ==
    rpc = "loop" => target_width + target_height <= 10000

====
